---- MODULE Spec2Model ----
(***************************************************************************)
(* Model of the HR backend: src/main.py (the four GET handlers and the     *)
(* process start) and src/schemas.py (the module whose classes GET /schema *)
(* exports).  Handlers are synchronous functions run concurrently, one per *)
(* request slot.                                                           *)
(***************************************************************************)
EXTENDS Integers, Sequences, FiniteSets, TLC

\* Number of request slots served concurrently.
NumReq == 2

Req == 1..NumReq

\* str(e)[:50] in test_database.
MsgCut == 50

\* collections[:10] in test_database.
CollCut == 10

Range(s) == {s[i] : i \in 1..Len(s)}

Take(s, n) == SubSeq(s, 1, IF Len(s) < n THEN Len(s) ELSE n)

(***************************************************************************)
(* src/schemas.py: the statements of the module, in source order.          *)
(***************************************************************************)

\* A field declaration  name: annotation = Field(default, ge=, le=).
\* base/list/optional spell the annotation; dkind is "required" for
\* Field(...), "fixed" for Field(<value>), "factory" for default_factory=list;
\* ge and le hold the declared bound, or nothing.
Fld(name, base, list, optional, dkind, dval, ge, le) ==
    [name |-> name, base |-> base, list |-> list, optional |-> optional,
     dkind |-> dkind, dval |-> dval, ge |-> ge, le |-> le]

ReqF(name, base) == Fld(name, base, FALSE, FALSE, "required", "", {}, {})

OptF(name, base) == Fld(name, base, FALSE, TRUE, "fixed", "null", {}, {})

Employee ==
    [name |-> "Employee",
     fields |-> << ReqF("first_name", "str"), ReqF("last_name", "str"),
                   ReqF("email", "str"), OptF("phone", "str"),
                   OptF("position", "str"), OptF("department", "str"),
                   OptF("start_date", "date"),
                   Fld("employment_type", "str", FALSE, TRUE, "fixed", "full-time", {}, {}),
                   OptF("manager_id", "str"), OptF("location", "str"),
                   Fld("is_active", "bool", FALSE, FALSE, "fixed", "true", {}, {}) >>]

Job ==
    [name |-> "Job",
     fields |-> << ReqF("title", "str"), OptF("department", "str"),
                   OptF("description", "str"), OptF("location", "str"),
                   Fld("employment_type", "str", FALSE, TRUE, "fixed", "full-time", {}, {}),
                   Fld("salary_min", "float", FALSE, TRUE, "fixed", "null", {0}, {}),
                   Fld("salary_max", "float", FALSE, TRUE, "fixed", "null", {0}, {}),
                   Fld("skills", "str", TRUE, TRUE, "factory", "", {}, {}),
                   Fld("is_open", "bool", FALSE, FALSE, "fixed", "true", {}, {}) >>]

Applicant ==
    [name |-> "Applicant",
     fields |-> << ReqF("name", "str"), ReqF("email", "str"),
                   OptF("phone", "str"), OptF("job_id", "str"),
                   OptF("resume_url", "str"), OptF("cover_letter", "str"),
                   Fld("status", "str", FALSE, FALSE, "fixed", "applied", {}, {}) >>]

LeaveRequest ==
    [name |-> "LeaveRequest",
     fields |-> << ReqF("employee_id", "str"), ReqF("leave_type", "str"),
                   ReqF("start_date", "date"), ReqF("end_date", "date"),
                   OptF("reason", "str"),
                   Fld("status", "str", FALSE, FALSE, "fixed", "pending", {}, {}) >>]

Attendance ==
    [name |-> "Attendance",
     fields |-> << ReqF("employee_id", "str"), ReqF("date", "date"),
                   OptF("check_in", "str"), OptF("check_out", "str"),
                   OptF("notes", "str") >>]

Payroll ==
    [name |-> "Payroll",
     fields |-> << ReqF("employee_id", "str"), ReqF("period_start", "date"),
                   ReqF("period_end", "date"),
                   Fld("base_pay", "float", FALSE, FALSE, "required", "", {0}, {}),
                   Fld("bonus", "float", FALSE, FALSE, "fixed", "0", {0}, {}),
                   Fld("deductions", "float", FALSE, FALSE, "fixed", "0", {0}, {}),
                   Fld("net_pay", "float", FALSE, TRUE, "fixed", "null", {0}, {}) >>]

PerformanceReview ==
    [name |-> "PerformanceReview",
     fields |-> << ReqF("employee_id", "str"), OptF("reviewer_id", "str"),
                   ReqF("review_date", "date"),
                   Fld("rating", "int", FALSE, FALSE, "required", "", {1}, {5}),
                   Fld("strengths", "str", TRUE, TRUE, "factory", "", {}, {}),
                   Fld("improvements", "str", TRUE, TRUE, "factory", "", {}, {}),
                   OptF("comments", "str") >>]

Announcement ==
    [name |-> "Announcement",
     fields |-> << ReqF("title", "str"), ReqF("body", "str"),
                   Fld("audience", "str", FALSE, TRUE, "fixed", "all", {}, {}),
                   Fld("priority", "str", FALSE, TRUE, "fixed", "normal", {}, {}) >>]

\* The class statements of schemas.py in the order the module executes them.
Classes ==
    << Employee, Job, Applicant, LeaveRequest, Attendance, Payroll,
       PerformanceReview, Announcement >>

ClassNames == {Classes[i].name : i \in 1..Len(Classes)}

ClassOf(n) == CHOOSE c \in Range(Classes) : c.name = n

\* Names bound by the import statements at the top of schemas.py.
ImportedNames == {"BaseModel", "Field", "Optional", "List", "date"}

\* Modules those import statements load.
SchemasImports == <<"pydantic", "typing", "datetime">>

(***************************************************************************)
(* Executing schemas.py: what `import schemas` runs.                       *)
(***************************************************************************)

\* The names an annotation mentions: Optional[List[str]] mentions three.
AnnotationNames(f) ==
    {f.base} \cup (IF f.list THEN {"List"} ELSE {})
             \cup (IF f.optional THEN {"Optional"} ELSE {})

\* The class namespace when the annotation of field i is evaluated.  An
\* annotated assignment binds the name to its value (the Field(...) object)
\* before it evaluates the annotation, so field i itself is already bound.
ClassNamespace(cls, i) == {cls.fields[j].name : j \in 1..i}

\* A class body looks names up in the class namespace first.  An annotation
\* that mentions a name bound there gets the Field(...) object instead of the
\* type; pydantic cannot build the model and the class statement raises.
ClassStatementRaises(cls) ==
    \E i \in 1..Len(cls.fields) :
        AnnotationNames(cls.fields[i]) \cap ClassNamespace(cls, i) # {}

\* Index of the first class statement that raises, 0 when none does.
FirstRaising ==
    LET bad == {i \in 1..Len(Classes) : ClassStatementRaises(Classes[i])}
    IN  IF bad = {} THEN 0 ELSE CHOOSE i \in bad : \A j \in bad : i <= j

\* Running the module top to bottom: the names bound when it ends, and
\* whether it ended by raising.
ExecSchemas ==
    LET k == FirstRaising
    IN  [raised |-> k # 0,
         ns |-> ImportedNames \cup
                {Classes[i].name : i \in 1..(IF k = 0 THEN Len(Classes) ELSE k - 1)}]

\* Loading modules that cannot fail here (os, fastapi, pydantic, ...).
ImportPlain(mods, names) ==
    mods @@ [n \in Range(names) \ DOMAIN mods |-> {}]

\* Mutant: a module whose execution raised stays in sys.modules, half built.
ImportModuleKeepPartial(mods, name) ==
    IF name \in DOMAIN mods
    THEN [raised |-> FALSE, mods |-> mods]
    ELSE IF name = "schemas"
    THEN LET deps == ImportPlain(mods, SchemasImports)
         IN  [raised |-> ExecSchemas.raised,
              mods |-> deps @@ ("schemas" :> ExecSchemas.ns)]
    ELSE [raised |-> FALSE, mods |-> ImportPlain(mods, <<name>>)]

\* The import statement.  sys.modules (mods) maps each loaded module to the
\* names it binds (only followed for schemas).  A module already there is
\* reused; one whose execution raises is removed again, the modules it
\* loaded on the way stay.
ImportModule(mods, name) ==
    IF name \in DOMAIN mods
    THEN [raised |-> FALSE, mods |-> mods]
    ELSE IF name = "schemas"
    THEN LET deps == ImportPlain(mods, SchemasImports)
         IN  IF ExecSchemas.raised
             THEN [raised |-> TRUE, mods |-> deps]
             ELSE [raised |-> FALSE, mods |-> deps @@ ("schemas" :> ExecSchemas.ns)]
    ELSE [raised |-> FALSE, mods |-> ImportPlain(mods, <<name>>)]

(***************************************************************************)
(* GET /schema (main.py, get_schemas).                                     *)
(***************************************************************************)

\* inspect.getmembers sorts by name; the names schemas.py can bind, sorted
\* as Python sorts strings.
SortedNames ==
    << "Announcement", "Applicant", "Attendance", "BaseModel", "Employee",
       "Field", "Job", "LeaveRequest", "List", "Optional", "Payroll",
       "PerformanceReview", "date" >>

IsBound(ns, n) == n \in ns

getmembers(ns) == SelectSeq(SortedNames, LAMBDA n : IsBound(ns, n))

\* What each member is: a model class, the base class itself, another class
\* (datetime.date), or no class at all.
MemberKind(n) ==
    IF n \in ClassNames THEN "model"
    ELSE IF n = "BaseModel" THEN "basemodel"
    ELSE IF n = "date" THEN "class"
    ELSE "other"

\* str.lower on the names the scan can meet.
lower(n) ==
    CASE n = "Announcement" -> "announcement"
      [] n = "Applicant" -> "applicant"
      [] n = "Attendance" -> "attendance"
      [] n = "BaseModel" -> "basemodel"
      [] n = "Employee" -> "employee"
      [] n = "Job" -> "job"
      [] n = "LeaveRequest" -> "leaverequest"
      [] n = "Payroll" -> "payroll"
      [] n = "PerformanceReview" -> "performancereview"
      [] OTHER -> n

\* One property of the JSON schema pydantic writes for a field.  A fixed
\* default is written under "default"; a default_factory is not written.
PropertySchema(f) ==
    [name |-> f.name,
     type |-> f.base,
     array |-> f.list,
     nullable |-> f.optional,
     default |-> IF f.dkind = "fixed" THEN {f.dval} ELSE {},
     minimum |-> f.ge,
     maximum |-> f.le]

\* cls.model_json_schema()
model_json_schema(cls) ==
    [title |-> cls.name,
     properties |-> [i \in 1..Len(cls.fields) |-> PropertySchema(cls.fields[i])],
     required |-> SelectSeq([i \in 1..Len(cls.fields) |-> cls.fields[i].name],
                            LAMBDA n : \E i \in 1..Len(cls.fields) :
                                cls.fields[i].name = n /\ cls.fields[i].dkind = "required")]

\* d[k] = v on a dict kept in insertion order: an existing key keeps its
\* place and takes the new value.
DictSet(d, k, v) ==
    IF \E i \in 1..Len(d) : d[i].key = k
    THEN [i \in 1..Len(d) |-> IF d[i].key = k THEN [key |-> k, doc |-> v] ELSE d[i]]
    ELSE Append(d, [key |-> k, doc |-> v])

\* The filter of the scan: a class, a subclass of BaseModel, not BaseModel.
IsExported(n) == MemberKind(n) = "model"

RECURSIVE ScanFrom(_, _, _)
ScanFrom(members, i, schema_defs) ==
    IF i > Len(members) THEN schema_defs
    ELSE ScanFrom(members, i + 1,
                  IF IsExported(members[i])
                  THEN DictSet(schema_defs, lower(members[i]),
                               model_json_schema(ClassOf(members[i])))
                  ELSE schema_defs)

\* The for loop of get_schemas over a loaded schemas module.
Scan(ns) == ScanFrom(getmembers(ns), 1, << >>)

\* Mutant: the handler catches the failure and answers with what it has.
get_schemas_masking(mods) ==
    LET imp == ImportModule(mods, "schemas")
    IN  [raised |-> FALSE,
         value |-> [schemas |-> IF imp.raised THEN Scan(ExecSchemas.ns)
                                ELSE Scan(imp.mods["schemas"])],
         mods |-> imp.mods]

\* The handler: the import inside it, then the scan.  An exception leaves the
\* handler (raised); mods is sys.modules afterwards.
get_schemas(mods) ==
    LET imp == ImportModule(mods, "schemas")
    IN  IF imp.raised
        THEN [raised |-> TRUE, value |-> [schemas |-> << >>], mods |-> imp.mods]
        ELSE [raised |-> FALSE,
              value |-> [schemas |-> Scan(imp.mods["schemas"])],
              mods |-> imp.mods]

\* What the framework sends for a handler's outcome: the returned value as a
\* 200 JSON body, or 500 when the handler raised.
Respond(raised, value) ==
    IF raised THEN [status |-> 500, body |-> [error |-> "Internal Server Error"]]
    ELSE [status |-> 200, body |-> value]

(***************************************************************************)
(* GET /test (main.py, test_database).                                     *)
(***************************************************************************)

\* Exception messages: a short one and one longer than the cut.
Messages == { <<1, 2, 3>>, [i \in 1..(MsgCut + 1) |-> i] }

\* Results of db.list_collection_names(): a few names, more than the cut.
CollectionLists == { <<1, 2>>, [i \in 1..(CollCut + 1) |-> i] }

\* What the database probe meets.  import: how `from database import db`
\* ends; is_none: db is None; has_name: hasattr(db, 'name'); list_raises:
\* list_collection_names raises; msg: the text of whatever is raised;
\* colls: what the listing returns.
Probe(import, is_none, has_name, list_raises, msg, colls) ==
    [import |-> import, is_none |-> is_none, has_name |-> has_name,
     list_raises |-> list_raises, msg |-> msg, colls |-> colls]

Probes ==
    {Probe("ImportError", FALSE, FALSE, FALSE, << >>, << >>)}
    \cup {Probe("Exception", FALSE, FALSE, FALSE, m, << >>) : m \in Messages}
    \cup {Probe("ok", TRUE, FALSE, FALSE, << >>, << >>)}
    \cup {Probe("ok", FALSE, h, TRUE, m, << >>) : h \in BOOLEAN, m \in Messages}
    \cup {Probe("ok", FALSE, h, FALSE, << >>, c) : h \in BOOLEAN, c \in CollectionLists}

\* A value of the "database" field: fixed text, then the cut message.
Text(t, detail) == [text |-> t, detail |-> detail]

\* The dict test_database starts from.
InitialResponse ==
    [backend |-> "Running",
     database |-> Text("Not Available", << >>),
     database_url |-> "None",
     database_name |-> "None",
     connection_status |-> "Not Connected",
     collections |-> << >>]

\* The inner try: list the collections, or note the error.
ListCollections(p, response) ==
    IF p.list_raises
    THEN [response EXCEPT !.database = Text("Connected but Error", Take(p.msg, MsgCut))]
    ELSE [response EXCEPT !.collections = Take(p.colls, CollCut),
                          !.database = Text("Connected & Working", << >>)]

\* The body of the outer try: exc is the exception that leaves it, if any.
ProbeBody(p, response) ==
    IF p.import # "ok"
    THEN [exc |-> p.import, response |-> response]
    ELSE IF ~p.is_none
    THEN [exc |-> "none",
          response |-> ListCollections(p,
              [response EXCEPT !.database = Text("Available", << >>),
                               !.database_url = "Configured",
                               !.database_name = IF p.has_name THEN "db.name" ELSE "Connected",
                               !.connection_status = "Connected"])]
    ELSE [exc |-> "none",
          response |-> [response EXCEPT
              !.database = Text("Available but not initialized", << >>)]]

\* Mutant: only ImportError is caught.
TryProbeImportErrorOnly(p, response) ==
    LET b == ProbeBody(p, response)
    IN  IF b.exc = "ImportError"
        THEN [raised |-> FALSE,
              response |-> [b.response EXCEPT
                  !.database = Text("Database module not found", << >>)]]
        ELSE [raised |-> b.exc # "none", response |-> b.response]

\* The outer try with its two except clauses.
TryProbe(p, response) ==
    LET b == ProbeBody(p, response)
    IN  IF b.exc = "ImportError"
        THEN [raised |-> FALSE,
              response |-> [b.response EXCEPT
                  !.database = Text("Database module not found", << >>)]]
        ELSE IF b.exc = "Exception"
        THEN [raised |-> FALSE,
              response |-> [b.response EXCEPT
                  !.database = Text("Error", Take(p.msg, MsgCut))]]
        ELSE [raised |-> FALSE, response |-> b.response]

EnvVars == {"DATABASE_URL", "DATABASE_NAME"}

\* Values a variable of the environment can hold.
EnvValues == {"", "mongodb://host"}

\* The environments: each variable absent, or present with a value.
Environments == UNION {[S -> EnvValues] : S \in SUBSET EnvVars}

\* os.getenv(name) used as a condition: None and "" are both false.
getenv_truthy(e, name) == name \in DOMAIN e /\ e[name] # ""

\* Mutant: the environment check fills the fields only where the probe left
\* them empty.
CheckEnvironmentKeepProbe(e, response) ==
    [response EXCEPT
        !.database_url = IF response.database_url # "None" THEN @
                         ELSE IF getenv_truthy(e, "DATABASE_URL") THEN "Set" ELSE "Not Set",
        !.database_name = IF response.database_name # "None" THEN @
                          ELSE IF getenv_truthy(e, "DATABASE_NAME") THEN "Set" ELSE "Not Set"]

\* The two assignments after the try.
CheckEnvironment(e, response) ==
    [response EXCEPT
        !.database_url = IF getenv_truthy(e, "DATABASE_URL") THEN "Set" ELSE "Not Set",
        !.database_name = IF getenv_truthy(e, "DATABASE_NAME") THEN "Set" ELSE "Not Set"]

\* The handler.
test_database(p, e) ==
    LET t == TryProbe(p, InitialResponse)
    IN  IF t.raised THEN [raised |-> TRUE, value |-> t.response]
        ELSE [raised |-> FALSE, value |-> CheckEnvironment(e, t.response)]

(***************************************************************************)
(* GET / and GET /api/hello.                                               *)
(***************************************************************************)

read_root == [message |-> "SaaS HR API is running"]

hello == [message |-> "Hello from the HR backend API!"]

(***************************************************************************)
(* The process.                                                            *)
(***************************************************************************)

\* Mutant: main.py imports schemas with its other imports.
MainImportsEager == <<"os", "fastapi", "pydantic", "typing", "schemas">>

\* The modules main.py imports when it is executed.
MainImports == <<"os", "fastapi", "pydantic", "typing">>

RECURSIVE ImportEach(_, _, _)
\* Import statements run in order; the first that raises ends the run.
ImportEach(mods, names, i) ==
    IF i > Len(names) THEN [raised |-> FALSE, mods |-> mods]
    ELSE LET r == ImportModule(mods, names[i])
         IN  IF r.raised THEN r ELSE ImportEach(r.mods, names, i + 1)

\* sys.modules before main.py runs.
NoModules == [n \in {} |-> {}]

VARIABLES
    phase,        \* "booting", "serving", or "crashed" when main.py raised
    environ,      \* the process environment
    sys_modules,  \* loaded modules
    pc,           \* per request slot: "idle", "running", "done"
    endpoint,     \* per request slot: the path requested
    probe,        \* per request slot: what its database probe met
    resp,         \* per request slot: the response sent
    later,        \* per slot: a /schema response had been sent when it began
    after_ok,     \* per slot: a 200 had been sent when it began
    schema_sent,  \* the distinct responses sent for /schema so far
    served_ok     \* some request has been answered with 200

vars == <<phase, environ, sys_modules, pc, endpoint, probe, resp, later,
          after_ok, schema_sent, served_ok>>

NoResp == [status |-> 0, body |-> [none |-> TRUE]]

NoProbe == Probe("ok", TRUE, FALSE, FALSE, << >>, << >>)

Paths == {"/", "/api/hello", "/test", "/schema"}

Init ==
    /\ phase = "booting"
    /\ environ \in Environments
    /\ sys_modules = NoModules
    /\ pc = [r \in Req |-> "idle"]
    /\ endpoint = [r \in Req |-> "/"]
    /\ probe = [r \in Req |-> NoProbe]
    /\ resp = [r \in Req |-> NoResp]
    /\ later = [r \in Req |-> FALSE]
    /\ after_ok = [r \in Req |-> FALSE]
    /\ schema_sent = {}
    /\ served_ok = FALSE

\* python main.py: the module's imports run, then the server listens.
Start ==
    /\ phase = "booting"
    /\ LET r == ImportEach(sys_modules, MainImports, 1)
       IN  /\ sys_modules' = r.mods
           /\ phase' = IF r.raised THEN "crashed" ELSE "serving"
    /\ UNCHANGED <<environ, pc, endpoint, probe, resp, later, after_ok,
                   schema_sent, served_ok>>

\* A request arrives and its handler is started on a worker thread.
Accept(r, path) ==
    /\ phase = "serving"
    /\ pc[r] = "idle"
    /\ pc' = [pc EXCEPT ![r] = "running"]
    /\ endpoint' = [endpoint EXCEPT ![r] = path]
    /\ resp' = [resp EXCEPT ![r] = NoResp]
    /\ later' = [later EXCEPT ![r] = (path = "/schema" /\ schema_sent # {})]
    /\ after_ok' = [after_ok EXCEPT ![r] = (path = "/schema" /\ served_ok)]
    /\ UNCHANGED <<phase, environ, sys_modules, probe, schema_sent, served_ok>>

Send(r, answer) ==
    /\ resp' = [resp EXCEPT ![r] = answer]
    /\ pc' = [pc EXCEPT ![r] = "done"]
    /\ served_ok' = (served_ok \/ answer.status = 200)

ReadRoot(r) ==
    /\ pc[r] = "running" /\ endpoint[r] = "/"
    /\ Send(r, Respond(FALSE, read_root))
    /\ UNCHANGED <<phase, environ, sys_modules, endpoint, probe, later, after_ok,
                   schema_sent>>

Hello(r) ==
    /\ pc[r] = "running" /\ endpoint[r] = "/api/hello"
    /\ Send(r, Respond(FALSE, hello))
    /\ UNCHANGED <<phase, environ, sys_modules, endpoint, probe, later, after_ok,
                   schema_sent>>

\* The handler of /test, for whatever its probe of the database meets.
TestDatabase(r) ==
    /\ pc[r] = "running" /\ endpoint[r] = "/test"
    /\ \E p \in Probes :
           /\ probe' = [probe EXCEPT ![r] = p]
           /\ LET h == test_database(p, environ)
              IN  Send(r, Respond(h.raised, h.value))
    /\ UNCHANGED <<phase, environ, sys_modules, endpoint, later, after_ok, schema_sent>>

GetSchemas(r) ==
    /\ pc[r] = "running" /\ endpoint[r] = "/schema"
    /\ LET h == get_schemas(sys_modules)
       IN  /\ Send(r, Respond(h.raised, h.value))
           /\ sys_modules' = h.mods
           /\ schema_sent' = schema_sent \cup {Respond(h.raised, h.value)}
    /\ UNCHANGED <<phase, environ, endpoint, probe, later, after_ok>>

\* The client has its response; the slot takes the next request.
Close(r) ==
    /\ pc[r] = "done"
    /\ pc' = [pc EXCEPT ![r] = "idle"]
    /\ resp' = [resp EXCEPT ![r] = NoResp]
    /\ probe' = [probe EXCEPT ![r] = NoProbe]
    /\ endpoint' = [endpoint EXCEPT ![r] = "/"]
    /\ later' = [later EXCEPT ![r] = FALSE]
    /\ after_ok' = [after_ok EXCEPT ![r] = FALSE]
    /\ UNCHANGED <<phase, environ, sys_modules, schema_sent, served_ok>>

Next ==
    \/ Start
    \/ \E r \in Req, path \in Paths : Accept(r, path)
    \/ \E r \in Req : ReadRoot(r)
    \/ \E r \in Req : Hello(r)
    \/ \E r \in Req : TestDatabase(r)
    \/ \E r \in Req : GetSchemas(r)
    \/ \E r \in Req : Close(r)

Spec == Init /\ [][Next]_vars

(***************************************************************************)
(* Properties.                                                             *)
(***************************************************************************)

SchemaDone(r) == pc[r] = "done" /\ endpoint[r] = "/schema"

TestDone(r) == pc[r] = "done" /\ endpoint[r] = "/test"

KeysOf(schemas) == {schemas[i].key : i \in 1..Len(schemas)}

DocAt(schemas, k) == schemas[CHOOSE i \in 1..Len(schemas) : schemas[i].key = k].doc

PropertyAt(doc, n) ==
    doc.properties[CHOOSE i \in DOMAIN doc.properties : doc.properties[i].name = n]

EightKeys ==
    {"employee", "job", "applicant", "leaverequest", "attendance", "payroll",
     "performancereview", "announcement"}

\* C1: every GET /schema answers 200 with the single top-level key "schemas"
\* whose value has exactly the 8 collection keys, none missing, none extra.
C1_EightKeys ==
    \A r \in Req : SchemaDone(r) =>
        /\ resp[r].status = 200
        /\ DOMAIN resp[r].body = {"schemas"}
        /\ Len(resp[r].body.schemas) = 8
        /\ KeysOf(resp[r].body.schemas) = EightKeys

\* C2: in every GET /schema response each registered model's lowercase name
\* is a key exactly once, and the document under it is that model's own.
C2_TotalCollisionFree ==
    \A r \in Req : SchemaDone(r) =>
        /\ resp[r].status = 200
        /\ \A c \in Range(Classes) :
            LET at == {i \in 1..Len(resp[r].body.schemas) :
                         resp[r].body.schemas[i].key = lower(c.name)}
            IN  /\ Cardinality(at) = 1
                /\ \A i \in at : resp[r].body.schemas[i].doc = model_json_schema(c)

C4_TestNeverFails ==
    \A r \in Req : TestDone(r) =>
        /\ resp[r].status \in 200..299
        /\ resp[r].body.backend = "Running"
        /\ LET p == probe[r]
               d == resp[r].body.database
           IN  /\ p.import = "ImportError" => d = Text("Database module not found", << >>)
               /\ p.import = "Exception" =>
                      /\ d.text = "Error"
                      /\ Len(d.detail) <= MsgCut
                      /\ \A i \in 1..Len(d.detail) : d.detail[i] = p.msg[i]
               /\ (p.import = "ok" /\ p.is_none) =>
                      d = Text("Available but not initialized", << >>)
               /\ (p.import = "ok" /\ ~p.is_none /\ p.list_raises) =>
                      /\ d.text = "Connected but Error"
                      /\ Len(d.detail) <= MsgCut
                      /\ \A i \in 1..Len(d.detail) : d.detail[i] = p.msg[i]
               /\ (p.import = "ok" /\ ~p.is_none /\ ~p.list_raises) =>
                      d = Text("Connected & Working", << >>)

\* A GET /test was answered whose import raised an exception other than
\* ImportError, with a message longer than the cut, while another's listing
\* raised.
C4_Witness ==
    \E r, q \in Req :
        /\ TestDone(r) /\ probe[r].import = "Exception" /\ Len(probe[r].msg) > MsgCut
        /\ TestDone(q) /\ probe[q].import = "ok" /\ probe[q].list_raises

\* C5: in every GET /schema response, a field declared without default is
\* listed as required; a field declared with a default (fixed or the empty
\* list) is not, and the document shows that default.
C5_RequiredAndDefaults ==
    \A r \in Req : SchemaDone(r) =>
        /\ resp[r].status = 200
        /\ \A c \in Range(Classes) : \A i \in 1..Len(c.fields) :
            LET f == c.fields[i]
                doc == DocAt(resp[r].body.schemas, lower(c.name))
            IN  IF f.dkind = "required"
                THEN f.name \in Range(doc.required)
                ELSE /\ f.name \notin Range(doc.required)
                     /\ PropertyAt(doc, f.name).default =
                            {IF f.dkind = "factory" THEN "[]" ELSE f.dval}

\* C6: in every GET /schema response, each field carries exactly the minimum
\* and maximum it declares, and no bound when it declares none.
C6_BoundsRoundTrip ==
    \A r \in Req : SchemaDone(r) =>
        /\ resp[r].status = 200
        /\ \A c \in Range(Classes) : \A i \in 1..Len(c.fields) :
            LET f == c.fields[i]
                doc == DocAt(resp[r].body.schemas, lower(c.name))
            IN  /\ PropertyAt(doc, f.name).minimum = f.ge
                /\ PropertyAt(doc, f.name).maximum = f.le

LoadedRegistry ==
    IF "schemas" \in DOMAIN sys_modules THEN sys_modules["schemas"] ELSE {}

\* What GET /schema answers when it runs alone in a freshly started process.
AloneResponse ==
    LET h == get_schemas(ImportEach(NoModules, MainImports, 1).mods)
    IN  Respond(h.raised, h.value)

C10_SetIffPresent ==
    \A r \in Req : TestDone(r) =>
        /\ resp[r].status = 200
        /\ resp[r].body.database_url = "Set" <=> "DATABASE_URL" \in DOMAIN environ
        /\ resp[r].body.database_name = "Set" <=> "DATABASE_NAME" \in DOMAIN environ

\* C10 amended: each field says "Set" exactly when its variable is present
\* and not empty, "Not Set" otherwise, whatever the probe wrote to it.
C10_SetIffNonEmpty ==
    \A r \in Req : TestDone(r) =>
        /\ resp[r].status = 200
        /\ resp[r].body.database_url =
               IF "DATABASE_URL" \in DOMAIN environ /\ environ["DATABASE_URL"] # ""
               THEN "Set" ELSE "Not Set"
        /\ resp[r].body.database_name =
               IF "DATABASE_NAME" \in DOMAIN environ /\ environ["DATABASE_NAME"] # ""
               THEN "Set" ELSE "Not Set"

\* A GET /test whose probe found a database (and wrote both fields) was
\* answered with DATABASE_URL present but empty and DATABASE_NAME set.
C10_Witness ==
    \E r \in Req :
        /\ TestDone(r) /\ probe[r].import = "ok" /\ ~probe[r].is_none
        /\ "DATABASE_URL" \in DOMAIN environ /\ environ["DATABASE_URL"] = ""
        /\ "DATABASE_NAME" \in DOMAIN environ /\ environ["DATABASE_NAME"] # ""

====
